---------------------------- MODULE Spec2Model ----------------------------
(***************************************************************************)
(* A model of clock.py: the hexadecimal hour clock for the 8x8 pixel array *)
(* of a Raspberry Pi sense hat.                                            *)
(*                                                                         *)
(* Python values are represented as follows.                               *)
(*   str          a sequence of one-character strings ('c' is <<"c">>)     *)
(*   list         a sequence; a pixel [r,g,b] is <<r,g,b>>                 *)
(*   dict         a function whose domain is the set of keys               *)
(*   float        see the section "Floating point" below                   *)
(***************************************************************************)
EXTENDS Integers, Sequences, FiniteSets, TLC

VARIABLES
    letters_dict,   \* the glyph table bound at line 164
    pc,             \* the position of the main program (lines 176-196)
    hours,          \* local of the main loop: the hour label (line 180)
    mins,           \* local of the main loop: the minute (line 181)
    pixels,         \* local of the main loop: the frame built at line 192
    stack,          \* the activations of clear_and_exit, innermost last
    sense,          \* the device: the last operation it was asked to do
    signals,        \* how many signals have been delivered
    exit_code,      \* the exit status of the process, "none" while it runs
    call            \* the function call made by the unit harness (FnSpec)

vars == <<letters_dict, pc, hours, mins, pixels, stack, sense, signals,
          exit_code, call>>

prog_vars == <<letters_dict, pc, hours, mins, pixels, stack, sense, signals,
               exit_code>>

---------------------------------------------------------------------------
(* Bounds of the model.                                                    *)

\* The number of SIGINT/SIGTERM deliveries in one run.
MaxSignals == 2

\* A signal is delivered before any statement of the main loop and of
\* clear_and_exit; inside the 500 iterations of the fade loop it is
\* delivered before iterations spread evenly over the loop (and before the
\* last one), InterruptPoints of them.
InterruptPoints == 3

\* rotate is called with turn counts in -MaxTurns..MaxTurns.
MaxTurns == 5

\* Rows of the letters file are 5 +/- WidthSlack columns wide in LoadSpec.
WidthSlack == 1

---------------------------------------------------------------------------
(* Sequence helpers (Python list comprehensions, zip, reversed).           *)

Range(s) == {s[i] : i \in DOMAIN s}

Reverse(s) == [i \in 1..Len(s) |-> s[Len(s) + 1 - i]]

Min(S) == CHOOSE m \in S : \A n \in S : m <= n

RECURSIVE Flatten(_)
\* [p for row in g for p in row]
Flatten(g) == IF g = <<>> THEN <<>> ELSE Head(g) \o Flatten(Tail(g))

\* Euclid's algorithm, as a function: its arguments are evaluated once.
GCD[a \in Nat, b \in Nat] == IF b = 0 THEN a ELSE GCD[b, a % b]

RECURSIVE Pow2(_)
Pow2(k) == IF k = 0 THEN 1 ELSE 2 * Pow2(k - 1)

RECURSIVE PowMod2(_, _)
\* 2^k modulo b
PowMod2(k, b) == IF k = 0 THEN 1 % b ELSE (2 * PowMod2(k - 1, b)) % b


RECURSIVE Log2Floor(_)
\* the largest k with 2^k <= n, for n >= 1
Log2Floor(n) == IF n < 2 THEN 0 ELSE 1 + Log2Floor(n \div 2)

---------------------------------------------------------------------------
(* Floating point.                                                         *)
(*                                                                         *)
(* minutes_brightness and dim compute in IEEE-754 doubles, and int()       *)
(* truncates, so a quotient rounded below the real one changes the integer *)
(* that dim returns (dim([10,0,100], minutes_brightness(9, 1)) is          *)
(* [1, 0, 19], where the real numbers give [2, 0, 20]).  A double is       *)
(* modelled as the record [num, den, d, sh] that stands for the number     *)
(*        (num + d * 2^(-sh)) / den                                        *)
(* where num/den is the real result and d * 2^(-sh) / den, with            *)
(* |d| <= den/2, is the rounding error the division left in it.            *)

FromInt(k) == [num |-> k, den |-> 1, d |-> 0, sh |-> 0]

RECURSIVE Shift(_, _, _)
\* the smallest t >= s with a * 2^t >= b
Shift(a, b, s) == IF a * Pow2(s) >= b THEN s ELSE Shift(a, b, s + 1)

\* a / b (Python true division of ints, 0 <= a < 2*b): the quotient rounded
\* to the nearest double, ties to even.  With 2^(-s) <= a/b < 2^(1-s) the
\* 53-bit mantissa is a * 2^(52+s) / b rounded to an integer.
FDiv(a, b) ==
    IF a = 0 THEN [num |-> 0, den |-> b, d |-> 0, sh |-> 0]
    ELSE LET sh  == 52 + Shift(a, b, 0)
             rem == (a * PowMod2(sh, b)) % b
             odd == ((a * PowMod2(sh, 2 * b)) % (2 * b)) \div b
             up  == 2 * rem > b \/ (2 * rem = b /\ odd = 1)
         IN  [num |-> a, den |-> b,
              d   |-> IF rem = 0 THEN 0 ELSE IF up THEN b - rem ELSE -rem,
              sh  |-> sh]

\* f * 2^k: a multiplication by a power of two is exact.
FMulPow2(f, k) == [num |-> f.num * Pow2(k), den |-> f.den, d |-> f.d, sh |-> f.sh - k]

\* f - x for an int x.  Only the comparisons of the difference with 0 and
\* with 1 are used, and rounding to nearest keeps their outcome.
FSubInt(f, x) == [f EXCEPT !.num = f.num - x * f.den]

\* f < k for an int k: the error term is smaller than 1/den.
FLessInt(f, k) ==
    LET n == f.num - k * f.den
    IN  IF n /= 0 THEN n < 0 ELSE f.d < 0

\* f % 1 for f >= 0 (exact in floating point)
FMod1(f) ==
    LET r == f.num % f.den
    IN  [f EXCEPT !.num = IF r = 0 /\ f.d < 0 THEN f.den ELSE r]

\* int(p * l) for an int p in 0..255 and a double l >= 0.  The product is
\* rounded to the nearest double and truncated.  The real product falls
\* below the integer N = p*num/den only by the error term, and the rounded
\* product stays below N when that term exceeds half the spacing 2^(g-52)
\* of the doubles just below N.
IntMul(p, l) ==
    LET prod == p * l.num
        N    == prod \div l.den
        g    == Log2Floor(2 * N - 1) - 1
        k    == l.sh - 53 + g
        a    == p * (0 - l.d)
    IN  IF prod % l.den /= 0 \/ l.d >= 0 \/ N = 0 THEN N
        ELSE IF k >= 0
             THEN (IF a > l.den * Pow2(k) THEN N - 1 ELSE N)
             ELSE (IF a * Pow2(0 - k) > l.den THEN N - 1 ELSE N)

(* The colours of the shutdown fade are fractions [n, d] in lowest terms  *)
(* with d > 0, computed exactly: over the 500 frames of the fade the       *)
(* doubles of the program truncate to the same integers.                   *)

Abs(n) == IF n < 0 THEN 0 - n ELSE n

\* n/d in lowest terms, as a function: its arguments are evaluated once.
Frac[n \in Int, d \in Nat] ==
    LET g == GCD[Abs(n), d] IN [n |-> n \div g, d |-> d \div g]

FracSub(a, b) == Frac[a.n * b.d - b.n * a.d, a.d * b.d]

FracLess(a, b) == a.n * b.d < b.n * a.d

---------------------------------------------------------------------------
(* The functions of clock.py.                                              *)

\* clamp(x, lower, upper), x a fraction, lower and upper ints
clamp(x, lower, upper) ==
    LET m == IF FracLess(Frac[upper, 1], x) THEN Frac[upper, 1] ELSE x   \* min(x, upper)
    IN  IF FracLess(m, Frac[lower, 1]) THEN Frac[lower, 1] ELSE m        \* max(lower, ...)

\* pow(c, 2)
pow2(c) == Frac[c.n * c.n, c.d * c.d]

\* int(l*c*255) with l = 1.0, for a fraction c >= 0
ColChannel(c) == (c.n * 255) \div c.d

\* col(r, g, b): colour triples in [0,1] to a 3 byte triplet
col(r, g, b) == <<ColChannel(r), ColChannel(g), ColChannel(b)>>

\* dim(p, l): p a 3 byte triplet, l a double
dim(p, l) == <<IntMul(p[1], l), IntMul(p[2], l), IntMul(p[3], l)>>

HexDigits == <<"0", "1", "2", "3", "4", "5", "6", "7", "8", "9",
               "a", "b", "c", "d", "e", "f">>

RECURSIVE HexDigitsOf(_)
HexDigitsOf(n) ==
    IF n < 16 THEN <<HexDigits[n + 1]>>
    ELSE HexDigitsOf(n \div 16) \o <<HexDigits[(n % 16) + 1]>>

\* hex(n) for n >= 0: '0x' and the digits
hex(n) == <<"0", "x">> \o HexDigitsOf(n)

\* time_letter(hour): 12-hour time in hex characters
time_letter_no_noon(hour) == SubSeq(hex(hour % 12), 3, Len(hex(hour % 12)))

time_letter(hour) ==
    IF hour = 12 THEN <<"c">>
    ELSE SubSeq(hex(hour % 12), 3, Len(hex(hour % 12)))       \* hex(hour%12)[2:]

\* minutes_brightness(mins, x): a faulty variant tests x_diff < 2 where the code
\* tests x_diff < 1
minutes_brightness_wide(m, x) ==
    LET mins_x == FMulPow2(FDiv(m, 60), 3)
        x_diff == FSubInt(mins_x, x)
    IN  IF FLessInt(x_diff, 0) THEN FromInt(0)
        ELSE IF FLessInt(x_diff, 2) THEN FMod1(mins_x)
        ELSE FromInt(1)

minutes_brightness(m, x) ==
    LET mins_x == FMulPow2(FDiv(m, 60), 3)          \* (mins / 60) * 8
        x_diff == FSubInt(mins_x, x)                   \* mins_x - x
    IN  IF FLessInt(x_diff, 0) THEN FromInt(0)
        ELSE IF FLessInt(x_diff, 1) THEN FMod1(mins_x)
        ELSE FromInt(1)

\* time_of_day_color(hours, mins): the four reference colours are unused
time_of_day_color(h, m) == <<10, 0, 100>>

\* bg_if_blank(col, bg_col): a faulty variant never substitutes the background
bg_if_blank_keep(c, bg_col) == c

bg_if_blank(c, bg_col) == IF c /= <<0, 0, 0>> THEN c ELSE bg_col

letter_pixel_col(x, y, p, h, m) ==
    bg_if_blank(p, dim(time_of_day_color(h, m), minutes_brightness(m, x)))

\* The letters file as open() and json.load() find it.
FileOf(data) == [exists |-> TRUE, json |-> TRUE, data |-> data]

\* load_letters(): pads every row with one blank column before and two
\* after; the width of a row is not looked at.
load_letters(file) ==
    IF ~file.exists THEN [raised |-> "FileNotFoundError", value |-> <<>>]
    ELSE IF ~file.json THEN [raised |-> "JSONDecodeError", value |-> <<>>]
    ELSE [raised |-> "none",
          value  |-> [letter \in DOMAIN file.data |->
                        [r \in DOMAIN file.data[letter] |->
                            <<0>> \o file.data[letter][r] \o <<0, 0>>]]]

\* quarter_rotation(g): a faulty variant turns clockwise
quarter_rotation_cw(g) ==
    LET n == IF g = <<>> THEN 0 ELSE Min({Len(g[r]) : r \in DOMAIN g})
    IN  [i \in 1..n |-> [j \in DOMAIN g |-> g[Len(g) + 1 - j][i]]]

\* quarter_rotation(g): zip(*[reversed(row) for row in g])
quarter_rotation(g) ==
    LET rev == [r \in DOMAIN g |-> Reverse(g[r])]
        n   == IF g = <<>> THEN 0 ELSE Min({Len(rev[r]) : r \in DOMAIN rev})
    IN  [i \in 1..n |-> [j \in DOMAIN rev |-> rev[j][i]]]

RECURSIVE rotate(_, _)
rotate(grid, quarter_turns) ==
    LET q == quarter_turns % 4
    IN  IF q = 0 THEN grid ELSE rotate(quarter_rotation(grid), q - 1)

---------------------------------------------------------------------------
(* The shutdown animation: the locals of clear_and_exit.                   *)

sadface == << <<0,0,0,0,0,0,0,0>>,
              <<1,0,1,0,0,1,0,1>>,
              <<0,1,0,0,0,0,1,0>>,
              <<1,0,1,0,0,1,0,1>>,
              <<0,0,0,0,0,0,0,0>>,
              <<0,0,1,1,1,1,0,0>>,
              <<0,1,0,0,0,0,1,0>>,
              <<1,0,0,0,0,0,0,1>> >>

initial == Frac[1, 2]

speed == 2

\* [speed * initial/2000, speed * initial/1000, speed * initial/1500]
increments == << Frac[speed * initial.n, initial.d * 2000],
                 Frac[speed * initial.n, initial.d * 1000],
                 Frac[speed * initial.n, initial.d * 1500] >>

min_increment ==
    CHOOSE m \in Range(increments) : \A n \in Range(increments) : ~FracLess(n, m)

\* int((initial / min_increment) / speed): a faulty variant divides by the
\* largest increment
power_off_time_max ==
    LET mx == CHOOSE m \in Range(increments) : \A n \in Range(increments) : ~FracLess(m, n)
    IN  (initial.n * mx.d) \div (initial.d * mx.n * speed)

power_off_time ==
    (initial.n * min_increment.d) \div (initial.d * min_increment.n * speed)

\* col(*[p*initial]*3)
FaceCol(p) == LET c == Frac[p * initial.n, initial.d] IN col(c, c, c)

\* line 153: [col(*[p*initial]*3) for row in sadface for p in row]
FacePixels == LET face == Flatten(sadface) IN [k \in DOMAIN face |-> FaceCol(face[k])]

\* line 149: [bg_if_blank(col(*[p*initial]*3), rgb_pix) for row in sadface
\* for p in row], as a function of rgb_pix so that rgb_pix is evaluated once
Painted[rgb_pix \in (0..255) \X (0..255) \X (0..255)] ==
    [k \in DOMAIN FacePixels |-> bg_if_blank(FacePixels[k], rgb_pix)]

\* lines 148-149: the frame of one iteration of the fade
FadePixels(rgb) ==
    Painted[col(pow2(clamp(rgb[1], 0, 1)),
                pow2(clamp(rgb[2], 0, 1)),
                pow2(clamp(rgb[3], 0, 1)))]

---------------------------------------------------------------------------
(* The main program.                                                       *)

Labels == <<"0", "1", "2", "3", "4", "5", "6", "7", "8", "9", "a", "b", "c">>

\* letters.json: for each of the 13 labels, 8 rows of 5 columns of 0 and 1.
LettersFile ==
    FileOf([letter \in {<<Labels[k]>> : k \in DOMAIN Labels} |->
              LET k == CHOOSE j \in DOMAIN Labels : Labels[j] = letter[1]
              IN  [r \in 1..8 |-> [c \in 1..5 |-> IF (r * c + k) % 3 = 0 THEN 1 ELSE 0]]])

\* The wall clock readings (hour, minute) of the runs of the main loop.
ClockTimes == {<<0, 0>>, <<14, 30>>}

NoFrame == <<>>

Init ==
    /\ letters_dict = load_letters(LettersFile).value      \* line 164
    /\ pc = "now"
    /\ hours = <<>>
    /\ mins = 0
    /\ pixels = NoFrame
    /\ stack = <<>>
    /\ sense = [op |-> "none", pixels |-> NoFrame, by |-> "none"]   \* lines 167-169
    /\ signals = 0
    /\ exit_code = "none"
    /\ call = [fn |-> "none"]

Running == pc /= "exited" /\ stack = <<>>

\* lines 178-182
ReadTime ==
    /\ Running /\ pc = "now"
    /\ \E t \in ClockTimes :
          /\ hours' = time_letter(t[1])
          /\ mins' = t[2]
    /\ pc' = "letter"
    /\ UNCHANGED <<letters_dict, pixels, stack, sense, signals, exit_code, call>>

\* line 188: [128*pixel]*3; a faulty variant renders at 256
LetterPixelFull(pixel) == <<256 * pixel, 256 * pixel, 256 * pixel>>

LetterPixel(pixel) == <<128 * pixel, 128 * pixel, 128 * pixel>>

\* lines 188-192: the frame of a glyph at an hour label and a minute
ClockPixels(letter, h, m) ==
    LET flat          == Flatten(letter)
        letter_pixels == [k \in DOMAIN flat |-> LetterPixel(flat[k])]
    IN  [k \in DOMAIN letter_pixels |->
            letter_pixel_col((k - 1) % 8, (k - 1) \div 8, letter_pixels[k], h, m)]

\* lines 185-192
BuildFrame ==
    /\ Running /\ pc = "letter"
    /\ IF hours \in DOMAIN letters_dict
       THEN /\ pixels' = ClockPixels(letters_dict[hours], hours, mins)
            /\ pc' = "set_pixels"
            /\ UNCHANGED exit_code
       ELSE /\ pc' = "exited"                                \* KeyError
            /\ exit_code' = 1
            /\ UNCHANGED pixels
    /\ UNCHANGED <<letters_dict, hours, mins, stack, sense, signals, call>>

\* line 195
SetPixels ==
    /\ Running /\ pc = "set_pixels"
    /\ sense' = [op |-> "set_pixels", pixels |-> pixels, by |-> "main"]
    /\ pc' = "sleep"
    /\ UNCHANGED <<letters_dict, hours, mins, pixels, stack, signals, exit_code, call>>

\* line 196
Sleep ==
    /\ Running /\ pc = "sleep"
    /\ pc' = "now"
    /\ UNCHANGED <<letters_dict, hours, mins, pixels, stack, sense, signals, exit_code, call>>

---------------------------------------------------------------------------
(* Signals.  The handlers of lines 172-173 run clear_and_exit on top of    *)
(* whatever the interpreter is executing, the main loop or an earlier      *)
(* activation of clear_and_exit alike: Python does not block a signal      *)
(* while its handler runs.                                                 *)

Top == stack[Len(stack)]

SetTop(r) == [stack EXCEPT ![Len(stack)] = r]

\* lines 141-146: the locals of a new activation
Activation == [pc |-> "fade", i |-> 0, rgb |-> <<initial, initial, initial>>, frames |-> 0]

FadeInterrupts ==
    {(k * power_off_time) \div InterruptPoints : k \in 0..(InterruptPoints - 1)}
        \cup {power_off_time - 1}

Interruptible ==
    IF stack = <<>> THEN TRUE
    ELSE IF Top.pc = "fade" THEN Top.i \in FadeInterrupts ELSE TRUE

Signal(signum) ==
    /\ pc /= "exited"
    /\ signals < MaxSignals
    /\ Interruptible
    /\ stack' = Append(stack, Activation)
    /\ signals' = signals + 1
    /\ UNCHANGED <<letters_dict, pc, hours, mins, pixels, sense, exit_code, call>>

---------------------------------------------------------------------------
(* clear_and_exit, one step per statement of the innermost activation.     *)

InHandler(at) == IF pc /= "exited" /\ stack /= <<>> THEN Top.pc = at ELSE FALSE

\* lines 147-151: one iteration of the fade
Fade ==
    /\ InHandler("fade")
    /\ sense' = [op |-> "set_pixels", pixels |-> FadePixels(Top.rgb), by |-> "clear_and_exit"]
    /\ stack' = SetTop([pc     |-> IF Top.i + 1 < power_off_time THEN "fade" ELSE "hold",
                        i      |-> Top.i + 1,
                        rgb    |-> [c \in 1..3 |-> FracSub(Top.rgb[c], increments[c])],
                        frames |-> Top.frames + 1])
    /\ UNCHANGED <<letters_dict, pc, hours, mins, pixels, signals, exit_code, call>>

\* line 152
Hold ==
    /\ InHandler("hold")
    /\ stack' = SetTop([Top EXCEPT !.pc = "face"])
    /\ UNCHANGED <<letters_dict, pc, hours, mins, pixels, sense, signals, exit_code, call>>

\* line 153
Face ==
    /\ InHandler("face")
    /\ sense' = [op |-> "set_pixels", pixels |-> FacePixels, by |-> "clear_and_exit"]
    /\ stack' = SetTop([Top EXCEPT !.pc = "pause", !.frames = @ + 1])
    /\ UNCHANGED <<letters_dict, pc, hours, mins, pixels, signals, exit_code, call>>

\* line 154
Pause ==
    /\ InHandler("pause")
    /\ stack' = SetTop([Top EXCEPT !.pc = "clear"])
    /\ UNCHANGED <<letters_dict, pc, hours, mins, pixels, sense, signals, exit_code, call>>

\* line 155 left out: the handler exits without clearing the device
ClearSkipped ==
    /\ InHandler("clear")
    /\ stack' = SetTop([Top EXCEPT !.pc = "exit"])
    /\ UNCHANGED <<letters_dict, pc, hours, mins, pixels, sense, signals, exit_code, call>>

\* line 155
Clear ==
    /\ InHandler("clear")
    /\ sense' = [op |-> "clear", pixels |-> NoFrame, by |-> "clear_and_exit"]
    /\ stack' = SetTop([Top EXCEPT !.pc = "exit"])
    /\ UNCHANGED <<letters_dict, pc, hours, mins, pixels, signals, exit_code, call>>

\* line 156, were sys.exit to return: the handler returns to what it
\* interrupted
ExitReturns ==
    /\ InHandler("exit")
    /\ stack' = SubSeq(stack, 1, Len(stack) - 1)
    /\ UNCHANGED <<letters_dict, pc, hours, mins, pixels, sense, signals, exit_code, call>>

\* line 156, were SystemExit caught at the activation that was interrupted:
\* only the innermost activation ends
ExitInnermost ==
    /\ InHandler("exit")
    /\ IF Len(stack) > 1
       THEN /\ stack' = SubSeq(stack, 1, Len(stack) - 1)
            /\ UNCHANGED <<pc, exit_code>>
       ELSE /\ pc' = "exited"
            /\ exit_code' = 0
            /\ UNCHANGED stack
    /\ UNCHANGED <<letters_dict, hours, mins, pixels, sense, signals, call>>

\* line 156: SystemExit unwinds every activation and the main loop, none of
\* which catches it
Exit ==
    /\ InHandler("exit")
    /\ pc' = "exited"
    /\ exit_code' = 0
    /\ UNCHANGED <<letters_dict, hours, mins, pixels, stack, sense, signals, call>>

MainStep == ReadTime \/ BuildFrame \/ SetPixels \/ Sleep

HandlerStep == Fade \/ Hold \/ Face \/ Pause \/ Clear \/ Exit

Next ==
    \/ ReadTime
    \/ BuildFrame
    \/ SetPixels
    \/ Sleep
    \/ \E signum \in {"SIGINT", "SIGTERM"} : Signal(signum)
    \/ Fade
    \/ Hold
    \/ Face
    \/ Pause
    \/ Clear
    \/ Exit

Spec == Init /\ [][Next]_vars

\* One signal, and the interpreter goes on executing the handler.
NextOne ==
    \/ MainStep
    \/ \E signum \in {"SIGINT", "SIGTERM"} : stack = <<>> /\ Signal(signum)
    \/ HandlerStep

OneSignalSpec == Init /\ [][NextOne]_vars /\ WF_vars(HandlerStep)

---------------------------------------------------------------------------
(* The functions called on their own: a run makes one call, of one         *)
(* function on inputs drawn from its domain, and records the call and what *)
(* it returned.                                                            *)

Hours == 0..23

Minutes == 0..59

Columns == 0..7

Turns == (0 - MaxTurns)..MaxTurns

\* An 8x8 grid whose 64 cells are all different, the face, and a glyph.
Grids ==
    { [r \in 1..8 |-> [c \in 1..8 |-> 8 * (r - 1) + c]],
      sadface,
      letters_dict[<<"c">>] }

\* Letters files: missing, not JSON, and one glyph of 8 rows whose first
\* row is w1 wide and whose other rows are w wide.
Widths == (5 - WidthSlack)..(5 + WidthSlack)

Files ==
    { [exists |-> FALSE, json |-> FALSE, data |-> <<>>],
      [exists |-> TRUE, json |-> FALSE, data |-> <<>>] }
    \cup
    { FileOf([letter \in {<<"0">>} |->
                [r \in 1..8 |-> [c \in 1..(IF r = 1 THEN w1 ELSE w) |-> bit]]]) :
        w1 \in Widths, w \in Widths, bit \in {0, 1} }

CallTimeLetter ==
    /\ call.fn = "none"
    /\ \E hour \in Hours :
          call' = [fn |-> "time_letter", args |-> <<hour>>, ret |-> time_letter(hour)]
    /\ UNCHANGED prog_vars

CallMinutesBrightness ==
    /\ call.fn = "none"
    /\ \E m \in Minutes, x \in Columns :
          call' = [fn |-> "minutes_brightness", args |-> <<m, x>>,
                   ret |-> minutes_brightness(m, x)]
    /\ UNCHANGED prog_vars

\* lines 180-192 at a given wall clock reading
CallClockPixels ==
    /\ call.fn = "none"
    /\ \E hour \in Hours, m \in Minutes :
          call' = [fn |-> "pixels", args |-> <<hour, m>>,
                   ret |-> ClockPixels(letters_dict[time_letter(hour)], time_letter(hour), m)]
    /\ UNCHANGED prog_vars

CallRotate ==
    /\ call.fn = "none"
    /\ \E g \in Grids, a \in Turns :
          call' = [fn |-> "rotate", args |-> <<g, a>>, ret |-> rotate(g, a)]
    /\ UNCHANGED prog_vars

CallLoadLetters ==
    /\ call.fn = "none"
    /\ \E f \in Files :
          call' = [fn |-> "load_letters", args |-> <<f>>, ret |-> load_letters(f)]
    /\ UNCHANGED prog_vars

FnNext ==
    \/ CallTimeLetter
    \/ CallMinutesBrightness
    \/ CallClockPixels
    \/ CallRotate
    \/ CallLoadLetters

FnSpec == Init /\ [][FnNext]_vars

---------------------------------------------------------------------------
(* Properties.                                                             *)

CleanExit == exit_code = 0 /\ sense.op = "clear" /\ sense.by = "clear_and_exit"

\* C1 (OneSignalSpec): once clear_and_exit has started and no further
\* signal arrives it terminates; the process ends only after the activation
\* has pushed its fixed number of frames (the 500 of the fade and the face,
\* 501 calls of set_pixels), with clear() as the last device operation and
\* with exit code 0.
C1_ShutdownTerminates ==
    /\ [](pc = "exited" => CleanExit /\ Top.pc = "exit" /\ Top.frames = 501)
    /\ (stack /= <<>>) ~> (pc = "exited")

C1_Witness ==
    /\ pc = "exited" /\ signals = 1 /\ Len(stack) = 1
    /\ CleanExit /\ stack[1].frames = 501

\* C2 (Spec): a signal delivered at any point of the main loop starts
\* clear_and_exit, and from then on the main loop never takes a step: its
\* position moves only to the exit of the process, its locals stay as they
\* were, and every device operation is one of clear_and_exit (a shutdown
\* frame or clear()), never a clock frame.
C2_NeverBackToLoop ==
    [][ /\ signals' > 0 => stack' /= <<>>
        /\ signals > 0 =>
              /\ pc' = pc \/ pc' = "exited"
              /\ hours' = hours /\ mins' = mins /\ pixels' = pixels
              /\ sense' /= sense => sense'.by = "clear_and_exit" ]_vars

\* The signal came when a built clock frame was about to be written; the
\* animation ran to clear() and the frame was never pushed.
C2_Witness ==
    /\ signals > 0 /\ pc = "set_pixels" /\ pixels /= NoFrame
    /\ sense.op = "clear"

\* The statements the innermost activation has still to execute.
Remaining ==
    IF pc = "exited" \/ stack = <<>> THEN 0
    ELSE CASE Top.pc = "fade"  -> 5 + (500 - Top.i)
           [] Top.pc = "hold"  -> 5
           [] Top.pc = "face"  -> 4
           [] Top.pc = "pause" -> 3
           [] Top.pc = "clear" -> 2
           [] Top.pc = "exit"  -> 1

\* C3 (Spec): a further signal during the shutdown, at any statement of it,
\* starts clear_and_exit again on top of the activation it interrupts (a
\* duplicate clean exit).  The interrupted activation never runs again, so
\* the animations are not interleaved; the innermost activation can always
\* take its next step, and each step leaves it fewer statements to execute,
\* so with finitely many signals the process neither stops short nor runs
\* for ever; and the process exits only with clear() as the last device
\* operation and exit code 0.
C3_SecondSignalCleanExit ==
    /\ [][ stack /= <<>> =>
              /\ Len(stack') >= Len(stack)
              /\ SubSeq(stack', 1, Len(stack) - 1) = SubSeq(stack, 1, Len(stack) - 1)
              /\ signals' = signals => Remaining' < Remaining /\ Remaining' >= 0 ]_vars
    /\ [](pc /= "exited" /\ stack /= <<>> => ENABLED HandlerStep)
    /\ [](pc = "exited" => CleanExit)

\* The second signal came between clear() and the exit of the first
\* activation, and the process has exited.
C3_Witness ==
    /\ pc = "exited" /\ Len(stack) = 2 /\ stack[1].pc = "exit"
    /\ CleanExit

IsPixel(p) == DOMAIN p = 1..3 /\ \A c \in 1..3 : p[c] \in 0..255

IsFrame(f) == DOMAIN f = 1..64 /\ \A k \in 1..64 : IsPixel(f[k])

\* C4 (Spec): every frame handed to set_pixels, by the main loop or by
\* clear_and_exit and whenever the signals come, has exactly 64 pixels of
\* three integer channels in 0..255; the frame the main loop is building is
\* whole before it is written.
C4_FramesWellFormed ==
    /\ sense.op = "set_pixels" => IsFrame(sense.pixels)
    /\ pc = "set_pixels" => IsFrame(pixels)

\* A shutdown frame was written while a built clock frame was pending.
C4_Witness ==
    /\ sense.op = "set_pixels" /\ sense.by = "clear_and_exit"
    /\ pc = "set_pixels" /\ Len(stack) = 2

\* C5 (FnSpec): for every hour in 0..23 time_letter yields one label of
\* '0'..'9','a','b','c': 'c' at hour 12, '0' at hour 0 and at no other
\* hour, and otherwise the hex digit of hour mod 12, so that h and h+12
\* share a label for h in 1..11.
C5_TimeLetter ==
    IF call.fn = "time_letter"
    THEN LET hour == call.args[1]
             r    == call.ret
         IN  /\ Len(r) = 1 /\ r[1] \in Range(Labels)
             /\ hour = 12 => r = <<"c">>
             /\ r = <<"0">> <=> hour = 0
             /\ hour /= 12 => r = <<Labels[(hour % 12) + 1]>>
             /\ hour \in 1..11 => time_letter(hour + 12) = r
    ELSE TRUE

C5_Witness == call.fn = "time_letter" /\ call.args = <<12>> /\ call.ret = <<"c">>

\* g turned k quarter turns anti-clockwise, k in 0..3, cell by cell: one
\* turn takes the last column of g, read downwards, to the first row.
Turned(g, k) ==
    LET n == Len(g)
    IN  [i \in 1..n |-> [j \in 1..n |->
            CASE k = 0 -> g[i][j]
              [] k = 1 -> g[j][n + 1 - i]
              [] k = 2 -> g[n + 1 - i][n + 1 - j]
              [] k = 3 -> g[n + 1 - j][i] ]]

\* C6 (FnSpec): for an 8x8 grid g and turn counts a, b of either sign,
\* rotate(g, a) is g turned a mod 4 quarter turns anti-clockwise, and
\* rotate(rotate(g, a), b) = rotate(g, a + b); so rotate(g, 0) = g,
\* rotate(g, 4) = g, rotate(rotate(g, 1), 3) = g, rotate(g, -1) = rotate(g, 3).
C6_Rotate ==
    IF call.fn = "rotate"
    THEN LET g == call.args[1]
             a == call.args[2]
             r == call.ret
         IN  /\ r = Turned(g, a % 4)
             /\ \A b \in Turns : rotate(r, b) = rotate(g, a + b)
             /\ a \in {0, 4} => r = g
             /\ a = 1 => rotate(r, 3) = g
             /\ a = 0 - 1 => r = rotate(g, 3)
    ELSE TRUE

C6_Witness ==
    /\ call.fn = "rotate" /\ call.args[2] = 0 - 1
    /\ call.ret /= call.args[1] /\ call.ret[1][1] = 57

\* Comparison of two doubles (records of the section "Floating point").
FErrLeq(a, b) ==
    IF a.d = 0 \/ b.d = 0 \/ (a.d < 0) /= (b.d < 0) THEN a.d <= 0 /\ b.d >= 0
    ELSE IF b.sh >= a.sh
         THEN a.d * b.den * Pow2(b.sh - a.sh) <= b.d * a.den
         ELSE a.d * b.den <= b.d * a.den * Pow2(a.sh - b.sh)

FLeq(a, b) ==
    \/ a.num * b.den < b.num * a.den
    \/ a.num * b.den = b.num * a.den /\ FErrLeq(a, b)

FEq(a, b) == FLeq(a, b) /\ FLeq(b, a)

\* C7 (FnSpec): with fillPosition = 8*m/60 (in fifteenths, 2*m),
\* minutes_brightness(m, x) is 0 when fillPosition - x < 0, the fractional
\* part of fillPosition (fillPosition - x, as the double that 8*m/60 is)
\* when 0 <= fillPosition - x < 1, and 1 when fillPosition - x >= 1.  It
\* never increases with x and never decreases with m; it is 0 everywhere at
\* minute 0; at minute 30 columns 0..3 are at 1 and columns 4..7 at 0; the
\* last column is below 1 at every minute of the hour and the wipe is
\* complete at minute 60 exactly.
C7_MinutesBrightness ==
    IF call.fn = "minutes_brightness"
    THEN LET m == call.args[1]
             x == call.args[2]
             r == call.ret
         IN  /\ 2 * m < 15 * x => FEq(r, FromInt(0))
             /\ 15 * x <= 2 * m /\ 2 * m < 15 * (x + 1) =>
                   /\ r.num * 15 = (2 * m - 15 * x) * r.den
                   /\ 2 * Abs(r.d) <= r.den
             /\ 2 * m >= 15 * (x + 1) => FEq(r, FromInt(1))
             /\ x < 7 => FLeq(minutes_brightness(m, x + 1), r)
             /\ m < 59 => FLeq(r, minutes_brightness(m + 1, x))
             /\ m = 0 => FEq(r, FromInt(0))
             /\ m = 30 => FEq(r, FromInt(IF x <= 3 THEN 1 ELSE 0))
             /\ x = 7 => ~FLeq(FromInt(1), r)
             /\ FEq(minutes_brightness(60, x), FromInt(1))
    ELSE TRUE

C7_Witness ==
    /\ call.fn = "minutes_brightness" /\ call.args = <<59, 7>>
    /\ call.ret.num * 15 = 13 * call.ret.den

C9_LoadRejectsBadWidth ==
    IF call.fn = "load_letters"
    THEN call.ret.raised = "none" =>
            \A letter \in DOMAIN call.ret.value :
                \A r \in DOMAIN call.ret.value[letter] :
                    Len(call.ret.value[letter][r]) = 8
    ELSE TRUE

\* C10 (Spec): every activation of clear_and_exit, whenever its signal
\* came, fades over exactly 500 frames, one set_pixels each, and when the
\* fade ends the channel with the largest decrement (0.001 a frame) has
\* come down from 0.5 to zero.
C10_FadeFrames ==
    \A k \in DOMAIN stack :
        LET a == stack[k]
        IN  /\ a.pc = "fade" => a.i < 500 /\ a.frames = a.i
            /\ a.pc /= "fade" =>
                  /\ a.i = 500
                  /\ a.frames = IF a.pc = "hold" \/ a.pc = "face" THEN 500 ELSE 501
                  /\ a.rgb[2].n <= 0
                  /\ \A c \in 1..3 : ~FracLess(increments[2], increments[c])

\* Two activations that started at different moments have both finished
\* their fade.
C10_Witness ==
    /\ Len(stack) = 2 /\ pc = "sleep"
    /\ stack[1].pc = "hold" /\ stack[2].pc = "hold"

\* C10 as stated: the fade has between 60 and 70 frames.
C10_SixtyToSeventy ==
    \A k \in DOMAIN stack : stack[k].pc /= "fade" => stack[k].i \in 60..70

=============================================================================
